---- MODULE Spec2Model ----
(***************************************************************************)
(* A model of devito/stencilkernel.py: the call-time half of an Operator   *)
(* (argument binding, the block-size autotuner, JIT compilation/loading    *)
(* and the native invocation).                                             *)
(*                                                                         *)
(* An OrderedDict is a sequence of records [k, v] (insertion order kept,   *)
(* assignment to an existing key keeps the key's position).  Every value   *)
(* bound in an argument mapping is a record [kind, ref, val]:              *)
(*   kind "sym"    a SymbolicData object (ref = object name)               *)
(*   kind "dim"    a Dimension object    (ref = dimension name)            *)
(*   kind "array"  a numpy array         (ref = array identity)            *)
(*   kind "int"    an integer            (val = the integer)               *)
(*   kind "struct" the profiler struct pointer                             *)
(***************************************************************************)
EXTENDS Integers, Sequences, FiniteSets, TLC

\* ---------------------------------------------------------------- bounds
\* Extents that data arrays may have along an axis.
SmallExtent == 4
MidExtent == 10
BigExtent == 20
\* How often the compile property may be read while no library is loaded.
MaxCompile == 1

Extents == {SmallExtent, MidExtent, BigExtent}

\* ------------------------------------------------------ program constants
\* `dim.size is None`: an open dimension.
None == 0
\* options['at_squeezer'] and options['at_blocksize'].
at_squeezer == 3
at_blocksize == <<8, 16, 24, 32, 40, 64, 128>>

\* --------------------------------------------------- OrderedDict helpers
Val(kind, ref, val) == [kind |-> kind, ref |-> ref, val |-> val]
IntV(n) == Val("int", "", n)
Item(k, v) == [k |-> k, v |-> v]

Keys(d) == [i \in 1..Len(d) |-> d[i].k]
Values(d) == [i \in 1..Len(d) |-> d[i].v]
Has(d, k) == \E i \in 1..Len(d) : d[i].k = k
Get(d, k) == d[CHOOSE i \in 1..Len(d) : d[i].k = k].v
Put(d, k, v) ==
    IF Has(d, k)
    THEN [i \in 1..Len(d) |-> IF d[i].k = k THEN Item(k, v) ELSE d[i]]
    ELSE Append(d, Item(k, v))

RECURSIVE Update(_, _)
Update(d, e) == IF e = <<>> THEN d
                ELSE Update(Put(d, e[1].k, e[1].v), Tail(e))

RECURSIVE SeqSum(_)
SeqSum(s) == IF s = <<>> THEN 0 ELSE s[1] + SeqSum(Tail(s))

EmptyMap == [n \in {} |-> 0]

\* ------------------------------------------------------------ dimensions
\* x, y: space dimensions; t: a BufferedDimension whose parent is time.
is_Buffered(d) == d = "t"
parent(d) == IF d = "t" THEN "time" ELSE d
\* The declared size of a dimension of operator o (None = open).
size(o, d) == IF d = "y" THEN o.ysize ELSE None

\* ------------------------------------------------------- symbolic data
\* u(t, x) is written by the kernel, m(x, y) is read.  m2 and m3 are other
\* SymbolicData objects a caller may pass as keyword overrides of m; every
\* object owns its array, and its shape is the shape of that array.
indices(f) == IF f = "u" THEN <<"t", "x">> ELSE <<"x", "y">>
TimeOrder == 2
shape(o, f) ==
    CASE f = "u"  -> <<TimeOrder, o.ux>>
      [] f = "m"  -> <<o.mx, o.my>>
      [] f = "m2" -> <<o.mx, o.my>>
      [] OTHER    -> <<o.mx, o.my + 1>>
data(f) == Val("array", f, 0)

\* ------------------------------------------------------------- operator
\* What the constructor leaves behind (lines 90-113): an operator o is a
\* record
\*   ysize, ux, mx, my            the declared size of y and the array shapes
\*   dle                          _dle_state.arguments, a sequence of
\*                                [argument, original_dim, value]
\*   has_applied_blocking, needs_aggressive_autotuning   _dle_state flags
\*   sequential                   the loop over t is_Sequential
DataParams == <<"u", "m">>
FoundDims == <<"t", "x", "y">>

\* A blocking parameter's value: nothing, a fixed user block size, or a
\* function of the dimension size.
NoValue == [kind |-> "none", val |-> 0]
UserBlock == 6
FixedValue == [kind |-> "fixed", val |-> UserBlock]
FnValue == [kind |-> "fn", val |-> 0]
\* The function a "fn" value stands for (the loop engine's choice).
ValueFn(dim_size) == (dim_size + 1) \div 2

BlockingArg(d, v) == [argument |-> d \o "_block", original_dim |-> d, value |-> v]

\* filter_ordered(..., key=name): drop later duplicates.
RECURSIVE filter_ordered(_)
filter_ordered(s) ==
    IF s = <<>> THEN <<>>
    ELSE LET r == filter_ordered(SubSeq(s, 1, Len(s) - 1))
             e == s[Len(s)]
         IN IF \E i \in 1..Len(r) : r[i] = e THEN r ELSE Append(r, e)

\* Lines 91-95 and 104: the kernel data, then the open dimensions (the
\* parents of buffered dimensions after the dimensions found), then the
\* loop engine's arguments.  Each parameter is [name, is_data].
parameters(o) ==
    LET buffered == SelectSeq(FoundDims, is_Buffered)
        dimensions == FoundDims \o [i \in 1..Len(buffered) |-> parent(buffered[i])]
        open == SelectSeq(filter_ordered(dimensions), LAMBDA d : size(o, d) = None)
    IN [i \in 1..Len(DataParams) |-> [name |-> DataParams[i], is_data |-> TRUE]]
       \o [i \in 1..Len(open) |-> [name |-> open[i], is_data |-> FALSE]]
       \o [i \in 1..Len(o.dle) |-> [name |-> o.dle[i].argument, is_data |-> FALSE]]

ParamNames(o) == LET p == parameters(o) IN [i \in 1..Len(p) |-> p[i].name]

\* ------------------------------------------------------ arguments()
\* kwargs is a record [autotune, data, dims]: the autotune flag, the keyword
\* entries named like data parameters and those named like dimensions.
Fail(e) == [err |-> e, arguments |-> <<>>, dim_sizes |-> EmptyMap,
            maybe_autotune |-> FALSE]

\* Line 128.
InitialArguments(o) ==
    LET p == parameters(o)
    IN [i \in 1..Len(p) |->
          Item(p[i].name, IF p[i].is_data THEN Val("sym", p[i].name, 0)
                                          ELSE Val("dim", p[i].name, 0))]

\* Lines 133-141: keyword overrides of symbolic data; "" or the error.
r_args(arguments) ==
    Keys(SelectSeq(arguments, LAMBDA it : it.v.kind = "sym"))
o_vals(arguments, kwargs) ==
    SelectSeq(r_args(arguments), LAMBDA n : n \in DOMAIN kwargs.data)

\* A variant of ShapesMatch that accepts every override.
ShapesMatchAny(o, declared, given) == TRUE

\* Line 138: the declared shape against the override's.
ShapesMatch(o, declared, given) == shape(o, declared) = shape(o, given)

RECURSIVE ReplaceOverridden(_, _, _, _)
ReplaceOverridden(o, arguments, names, kwargs) ==
    IF names = <<>> THEN [err |-> "", arguments |-> arguments]
    ELSE LET argname == names[1] IN
         IF ~ShapesMatch(o, Get(arguments, argname).ref, kwargs.data[argname])
         THEN [err |-> "InvalidArgument", arguments |-> arguments]
         ELSE ReplaceOverridden(o, Put(arguments, argname,
                                       Val("sym", kwargs.data[argname], 0)),
                                Tail(names), kwargs)

\* A variant of FitsArray without the comparison.
FitsArrayAlways(dim, known, extent) == TRUE

\* Lines 159-160: a known size must fit the array, unless the dimension is
\* buffered.
FitsArray(dim, known, extent) == is_Buffered(dim) \/ known <= extent

\* Lines 150-166: one positional argument's indices; st is [err, dim_sizes].
RECURSIVE InferSizes(_, _, _, _, _)
InferSizes(o, f, i, st, kwargs) ==
    IF st.err # "" \/ i > Len(indices(f)) THEN st
    ELSE LET dim == indices(f)[i]
             shp == shape(o, f)
             ds == st.dim_sizes
         IN IF size(o, dim) = None
            THEN LET ds1 == IF dim \in DOMAIN kwargs.dims
                            THEN (dim :> kwargs.dims[dim]) @@ ds
                            ELSE ds
                 IN IF dim \in DOMAIN ds1
                    THEN IF ~FitsArray(dim, ds1[dim], shp[i])
                         THEN [st EXCEPT !.err = "AssertionError"]
                         ELSE InferSizes(o, f, i + 1, [st EXCEPT !.dim_sizes = ds1],
                                         kwargs)
                    ELSE InferSizes(o, f, i + 1,
                                    [st EXCEPT !.dim_sizes = (dim :> shp[i]) @@ ds1],
                                    kwargs)
            ELSE IF ~is_Buffered(dim) /\ ~(size(o, dim) = shp[i])
                 THEN [st EXCEPT !.err = "AssertionError"]
                 ELSE InferSizes(o, f, i + 1, st, kwargs)

\* Lines 144-166: zip(f_args, args); st is [err, arguments, dim_sizes].
f_args(arguments) ==
    LET syms == SelectSeq(arguments, LAMBDA it : it.v.kind = "sym")
    IN [i \in 1..Len(syms) |-> syms[i].v.ref]

RECURSIVE Traverse(_, _, _, _, _, _)
Traverse(o, fs, args, j, st, kwargs) ==
    IF st.err # "" \/ j > Len(fs) \/ j > Len(args) THEN st
    ELSE LET f == fs[j]
             inf == InferSizes(o, f, 1, [err |-> "", dim_sizes |-> st.dim_sizes],
                               kwargs)
         IN Traverse(o, fs, args, j + 1,
                     [err |-> inf.err,
                      arguments |-> Put(st.arguments, args[j], data(f)),
                      dim_sizes |-> inf.dim_sizes],
                     kwargs)

\* Lines 169-172.
BufferedParents(dim_sizes) ==
    IF "t" \in DOMAIN dim_sizes /\ parent("t") \notin DOMAIN dim_sizes
    THEN (parent("t") :> dim_sizes["t"]) @@ dim_sizes
    ELSE dim_sizes

\* A variant of UserProvided that leaves tuning on.
UserProvidedTuned(st, i) ==
    [st EXCEPT !.dle_arguments = (i.argument :> i.value.val) @@ @]

\* Lines 183-185: a user-provided block size is used and rules tuning out.
UserProvided(st, i) ==
    [st EXCEPT !.dle_arguments = (i.argument :> i.value.val) @@ @,
               !.maybe_autotune = FALSE]

\* Lines 175-187; st is [err, dle_arguments, maybe_autotune].
RECURSIVE BlockSizes(_, _, _, _)
BlockSizes(o, dim_sizes, n, st) ==
    IF st.err # "" \/ n > Len(o.dle) THEN st
    ELSE LET i == o.dle[n]
             dim_size == IF i.original_dim \in DOMAIN dim_sizes
                         THEN dim_sizes[i.original_dim]
                         ELSE size(o, i.original_dim)
         IN IF dim_size = None
            THEN [st EXCEPT !.err = "AssertionError"]
            ELSE BlockSizes(o, dim_sizes, n + 1,
                  CASE i.value.kind = "fn" ->
                         [st EXCEPT !.dle_arguments =
                              (i.argument :> ValueFn(dim_size)) @@ @]
                    [] i.value.kind = "fixed" /\ i.value.val # 0 ->
                         UserProvided(st, i)
                    [] OTHER ->
                         [st EXCEPT !.dle_arguments = (i.argument :> dim_size) @@ @])

\* Lines 191-193; st is [err, arguments].
RECURSIVE InsertSizes(_, _, _)
InsertSizes(d_args, dim_sizes, st) ==
    IF st.err # "" \/ d_args = <<>> THEN st
    ELSE IF d_args[1] \notin DOMAIN dim_sizes
         THEN [st EXCEPT !.err = "KeyError"]
         ELSE InsertSizes(Tail(d_args), dim_sizes,
                          [st EXCEPT !.arguments =
                               Put(@, d_args[1], IntV(dim_sizes[d_args[1]]))])

\* Lines 122-193: the binding up to (not including) the autotuner.
Bind(o, args0, kwargs) ==
    LET args == IF Len(args0) = 0 THEN ParamNames(o) ELSE args0
        a0 == InitialArguments(o)
        a1 == ReplaceOverridden(o, a0, o_vals(a0, kwargs), kwargs)
        a2 == Traverse(o, f_args(a1.arguments), args, 1,
                       [err |-> "", arguments |-> a1.arguments,
                        dim_sizes |-> EmptyMap], kwargs)
        ds3 == BufferedParents(a2.dim_sizes)
        b4 == BlockSizes(o, ds3, 1, [err |-> "", dle_arguments |-> EmptyMap,
                                     maybe_autotune |-> kwargs.autotune])
        ds4 == b4.dle_arguments @@ ds3
        dims == SelectSeq(a2.arguments, LAMBDA it : it.v.kind = "dim")
        d_args == [i \in 1..Len(dims) |-> dims[i].v.ref]
        a5 == InsertSizes(d_args, ds4, [err |-> "", arguments |-> a2.arguments])
    IN IF a1.err # "" THEN Fail(a1.err)
       ELSE IF a2.err # "" THEN Fail(a2.err)
       ELSE IF b4.err # "" THEN Fail(b4.err)
       ELSE IF a5.err # "" THEN Fail(a5.err)
       ELSE [err |-> "", arguments |-> a5.arguments, dim_sizes |-> ds4,
             maybe_autotune |-> b4.maybe_autotune]

\* ------------------------------------------------------ _autotune()
\* Lines 528 and 534-536: the names of the output fields, and the parents of
\* the buffered dimensions iterated sequentially.
output == {"u"}
squeezable(o) == IF o.sequential THEN {parent("t")} ELSE {}

\* Line 539: mapper, keyed by the blocking parameters' names.
InMapper(o, k) == \E n \in 1..Len(o.dle) : o.dle[n].argument = k
Mapper(o, k) == o.dle[CHOOSE n \in 1..Len(o.dle) : o.dle[n].argument = k]

\* A variant of CloneArguments that shares the outputs with the caller.
CloneShared(arguments) == arguments

\* Lines 525-531: the trial mapping, with private copies of the outputs.
\* The copy of array a is the array [a EXCEPT !.val = 1].
Copy(v) == IF v.kind = "array" THEN [v EXCEPT !.val = 1] ELSE v
CloneArguments(arguments) ==
    [i \in 1..Len(arguments) |->
        IF arguments[i].k \in output
        THEN Item(arguments[i].k, Copy(arguments[i].v))
        ELSE arguments[i]]

RECURSIVE Flatten(_)
Flatten(ss) == IF ss = <<>> THEN <<>> ELSE ss[1] \o Flatten(Tail(ss))

\* itertools.combinations: the r-subsets of lo..n as increasing sequences,
\* in lexicographic order.
RECURSIVE combinations(_, _, _)
combinations(lo, n, r) ==
    IF r = 0 THEN << <<>> >>
    ELSE IF lo > n THEN <<>>
    ELSE LET with == combinations(lo + 1, n, r - 1)
         IN [i \in 1..Len(with) |-> <<lo>> \o with[i]] \o combinations(lo + 1, n, r)

\* Lines 540-541: one candidate (an OrderedDict over the blocking
\* parameters) per configured block size.
BaseBlocksizes(o) ==
    [i \in 1..Len(at_blocksize) |->
        [n \in 1..Len(o.dle) |-> Item(o.dle[n].argument, at_blocksize[i])]]

\* The interpreters the module is written to run under.  OrderedDict.items()
\* is a list under Python 2 and a view under Python 3; a view takes neither
\* an index nor a slice.
Interpreters == {"2.7", "3"}
ItemsIsList(py) == py = "2.7"

\* Lines 544-547: [err, elaborated].  The first pass of the inner loop
\* subscripts items() (line 546), which raises TypeError on a view.
SwappedTails(py, base) ==
    LET firsts == SubSeq(base, 1, IF Len(base) < 3 THEN Len(base) ELSE 3)
    IN IF base # <<>> /\ ~ItemsIsList(py)
       THEN [err |-> "TypeError", elaborated |-> <<>>]
       ELSE [err |-> "",
             elaborated |->
               Flatten([b \in 1..Len(firsts) |->
                 [i \in 1..Len(base) |->
                     SubSeq(firsts[b], 1, Len(firsts[b]) - 1)
                       \o <<base[i][Len(base[i])]>>]])]

\* Lines 548-554.
Doubled(blocksize, j) ==
    [n \in 1..Len(blocksize) |->
        IF \E q \in 1..Len(j) : j[q] = n
        THEN Item(blocksize[n].k, blocksize[n].v * 2)
        ELSE blocksize[n]]
DoubledSubsets(base) ==
    Flatten([b \in 1..Len(base) |->
        LET blocksize == base[b]
            ncombs == Len(blocksize)
            js == Flatten([i \in 1..ncombs |-> combinations(1, ncombs, i)])
        IN [q \in 1..Len(js) |-> Doubled(blocksize, js[q])]])

\* Lines 539-555: [err, blocksizes].
Blocksizes(py, o) ==
    LET base == BaseBlocksizes(o)
        swapped == SwappedTails(py, base)
    IN IF ~o.needs_aggressive_autotuning
       THEN [err |-> "", blocksizes |-> base]
       ELSE IF swapped.err # ""
       THEN [err |-> swapped.err, blocksizes |-> <<>>]
       ELSE [err |-> "",
             blocksizes |-> base \o (swapped.elaborated \o DoubledSubsets(base))]

\* Iteration.end(handle): the end point of the blocked loop given the
\* extent bound to its dimension, or the dimension's own size when the
\* dimension is no parameter (handle is None).
IterationEnd(o, d, handle) == IF handle # None THEN handle ELSE size(o, d)

\* A variant of Legal with the comparison turned around.
LegalFlipped(val, end) == val >= end

\* Line 566: a trial value is legal when it does not exceed the loop's end.
Legal(val, end) == val <= end

\* Line 565: the extent bound to dimension d in the trial mapping.
Handle(at_arguments, d) ==
    IF Has(at_arguments, d) THEN Get(at_arguments, d).val ELSE None

\* Lines 561-575 for one candidate: walk the trial mapping in order, bind
\* the candidate's values, squeeze the squeezable dimensions, stop at the
\* first illegal value.  The mapping keeps what was written before the stop.
RECURSIVE TryBlocksize(_, _, _, _)
TryBlocksize(o, at_arguments, blocksize, i) ==
    IF i > Len(at_arguments)
    THEN [illegal |-> FALSE, at_arguments |-> at_arguments]
    ELSE LET k == at_arguments[i].k IN
         IF Has(blocksize, k)
         THEN LET val == Get(blocksize, k)
                  d == Mapper(o, k).original_dim
                  handle == Handle(at_arguments, d)
              IN IF Legal(val, IterationEnd(o, d, handle))
                 THEN TryBlocksize(o, Put(at_arguments, k, IntV(val)), blocksize, i + 1)
                 ELSE [illegal |-> TRUE, at_arguments |-> at_arguments]
         ELSE IF k \in squeezable(o)
              THEN TryBlocksize(o, Put(at_arguments, k, IntV(at_squeezer)),
                                blocksize, i + 1)
              ELSE TryBlocksize(o, at_arguments, blocksize, i + 1)

\* A variant of Best that takes the last key of least value.
BestLast(timings) ==
    timings[CHOOSE i \in 1..Len(timings) :
                /\ \A j \in 1..Len(timings) : timings[i].v <= timings[j].v
                /\ \A j \in (i + 1)..Len(timings) : timings[j].v > timings[i].v].k

\* Line 586: min(timings, key=timings.get), the first key of least value.
Best(timings) ==
    timings[CHOOSE i \in 1..Len(timings) :
                /\ \A j \in 1..Len(timings) : timings[i].v <= timings[j].v
                /\ \A j \in 1..(i - 1) : timings[j].v > timings[i].v].k

\* Lines 587-589: write the best candidate into the caller's mapping.
WriteBack(o, arguments, best) ==
    [i \in 1..Len(arguments) |->
        IF InMapper(o, arguments[i].k)
        THEN Item(arguments[i].k, IntV(Get(best, arguments[i].k)))
        ELSE arguments[i]]

\* Lines 513-515: the profiler struct.
extra_arguments == <<Item("profiler", Val("struct", "profiler", 0))>>

\* ------------------------------------------- compile, cfunction, native
\* Lines 228-244: the compile property.
compile(l) ==
    IF l._lib = "None" THEN [l EXCEPT !.jit_compile = @ + 1] ELSE l

\* Lines 246-261: the cfunction property.
cfunction(l) ==
    LET l1 == IF l._lib = "None"
              THEN [compile(l) EXCEPT !._lib = "loaded", !.load = @ + 1]
              ELSE l
    IN IF l1._cfunction = "None"
       THEN [l1 EXCEPT !._cfunction = "resolved", !.getattr = @ + 1]
       ELSE l1

\* Lines 256-259: argtypes; a call converts its values to them, an integer
\* for a Dimension parameter and an array otherwise, the profiler struct last.
Convertible(o, mapping) ==
    LET p == parameters(o)
    IN /\ Len(mapping) = Len(p) + 1
       /\ \A i \in 1..Len(p) :
             mapping[i].v.kind = IF p[i].is_data THEN "array" ELSE "int"

\* The native routine writes the arrays bound to its output fields.
Arrays == {Val("array", f, c) : f \in {"u", "m", "m2", "m3"}, c \in {0, 1}}
Written(mapping) ==
    {mapping[i].v : i \in {j \in 1..Len(mapping) : mapping[j].k \in output}}
NativeWrites(mapping, memory, by) ==
    [a \in Arrays |-> IF a \in Written(mapping) THEN by ELSE memory[a]]

\* ------------------------------------------------- _profile_summary()
\* self.dtype().itemsize (line 497).
ItemSize == 8

\* An Iteration of a section's iteration space: its dimension and the
\* least and greatest offsets of the accesses along it.
Iter(d, lo, hi) == [dim |-> d, lo |-> lo, hi |-> hi]

\* Lines 455-477: self.sections maps an iteration space to
\* Profile(lname, ops, memory).  The first section spans x and y, the second
\* the time loop and y with a halo of one point on either side.
Profile(lname) ==
    IF lname = "loop_x_0"
    THEN [timer |-> lname, ops |-> 2, memory |-> 1,
          itspace |-> <<Iter("x", 0, 0), Iter("y", 0, 0)>>]
    ELSE [timer |-> lname, ops |-> 3, memory |-> 2,
          itspace |-> <<Iter("t", 0, 0), Iter("y", -1, 1)>>]

\* Iteration.extent(finish): the iterations run from the lower limit less
\* the least offset up to the finish (or the dimension's size) less the
\* greatest offset.
IterationExtent(o, i, finish) ==
    (IF finish # None THEN finish ELSE size(o, i.dim)) - i.hi + i.lo

RECURSIVE SeqProduct(_)
SeqProduct(s) == IF s = <<>> THEN 1 ELSE s[1] * SeqProduct(Tail(s))

\* A quotient of floats, kept as numerator and denominator.
Quotient(num, den) == [num |-> num, den |-> den]
QuotientLess(a, b) == a.num * b.den < b.num * a.den

\* A variant of PerfEntry whose traffic is counted over the iterations.
PerfEntryByIterations(o, sizes, timings_, profile) ==
    LET itspace == profile.itspace
        dims == [i \in 1..Len(itspace) |->
                    IF is_Buffered(itspace[i].dim) THEN parent(itspace[i].dim)
                    ELSE itspace[i].dim]
        time == timings_[profile.timer]
        itershape == [i \in 1..Len(itspace) |->
                         IterationExtent(o, itspace[i],
                             IF dims[i] \in DOMAIN sizes THEN sizes[dims[i]] ELSE None)]
        iterspace == SeqProduct(itershape)
        flops == profile.ops * iterspace
        traffic == profile.memory * iterspace * ItemSize
    IN [time |-> time, gflopss |-> Quotient(flops, time),
        oi |-> Quotient(flops, traffic),
        itershape |-> itershape, datashape |-> itershape]

\* Lines 484-506: the PerfEntry of one section.  gflopss is in units of
\* 10^-9.
PerfEntry(o, sizes, timings_, profile) ==
    LET itspace == profile.itspace
        dims == [i \in 1..Len(itspace) |->
                    IF is_Buffered(itspace[i].dim) THEN parent(itspace[i].dim)
                    ELSE itspace[i].dim]
        time == timings_[profile.timer]
        itershape == [i \in 1..Len(itspace) |->
                         IterationExtent(o, itspace[i],
                             IF dims[i] \in DOMAIN sizes THEN sizes[dims[i]] ELSE None)]
        iterspace == SeqProduct(itershape)
        flops == profile.ops * iterspace
        datashape == [i \in 1..Len(itspace) |->
                         IF size(o, itspace[i].dim) # None
                         THEN size(o, itspace[i].dim) ELSE sizes[dims[i]]]
        dataspace == SeqProduct(datashape)
        traffic == profile.memory * dataspace * ItemSize
    IN [time |-> time, gflopss |-> Quotient(flops, time),
        oi |-> Quotient(flops, traffic),
        itershape |-> itershape, datashape |-> datashape]

\* The order of tuples: by the first component that differs.
RECURSIVE SeqLess(_, _)
SeqLess(s, t) ==
    IF t = <<>> THEN FALSE
    ELSE IF s = <<>> THEN TRUE
    ELSE IF s[1] # t[1] THEN s[1] < t[1]
    ELSE SeqLess(Tail(s), Tail(t))
EntryLess(a, b) ==
    IF a.time # b.time THEN a.time < b.time
    ELSE IF QuotientLess(a.gflopss, b.gflopss) \/ QuotientLess(b.gflopss, a.gflopss)
         THEN QuotientLess(a.gflopss, b.gflopss)
    ELSE IF QuotientLess(a.oi, b.oi) \/ QuotientLess(b.oi, a.oi)
         THEN QuotientLess(a.oi, b.oi)
    ELSE IF a.itershape # b.itershape THEN SeqLess(a.itershape, b.itershape)
    ELSE SeqLess(a.datashape, b.datashape)

\* A variant of MostConsuming that takes the first section.
MostConsumingFirst(summary_) == summary_[1].k

\* Line 509: max(summary, key=summary.get), the first key of greatest entry.
MostConsuming(summary_) ==
    summary_[CHOOSE i \in 1..Len(summary_) :
                 /\ \A j \in 1..Len(summary_) : ~EntryLess(summary_[i].v, summary_[j].v)
                 /\ \A j \in 1..(i - 1) : EntryLess(summary_[j].v, summary_[i].v)].k

\* summary.pop(key) and summary['main'] = entry.
Pop(d, k) == SelectSeq(d, LAMBDA it : it.k # k)

\* Lines 479-511.
profile_summary(o, sizes, timings_) ==
    LET all == [i \in 1..Len(o.sections) |->
                   Item(Profile(o.sections[i]).timer,
                        PerfEntry(o, sizes, timings_, Profile(o.sections[i])))]
        most == MostConsuming(all)
    IN Put(Pop(all, most), "main", Get(all, most))

\* ------------------------------------------------------ the state machine
VARIABLES
    op,            \* the operator, as built by the constructor
    python,        \* the interpreter the operator runs under
    lib,           \* _lib, _cfunction and how often each toolchain step ran
    profiler,      \* profiler.timings, one time per profiled section
    mem,           \* per array: who wrote it since the running call began
    pc,            \* "idle", "autotune", "invoke", "returned" or "raised"
    call,          \* the running call: [args, kwargs]
    arguments,     \* the caller's argument mapping
    dim_sizes,     \* the resolved extents
    at_arguments,  \* the autotuner's trial mapping
    blocksizes,    \* the candidates of the running search
    n,             \* the position of the next candidate
    timings,       \* the autotuner's recorded times, keyed by candidate
    runs,          \* the native invocations of the running call, in order
    passed,        \* the mapping passed to the latest of them
    entered,       \* <<arguments>> as they were on entry to _autotune
    status,        \* "" while running, "ok" or the exception raised
    summary,       \* the PerformanceSummary apply() returns
    merged,        \* _schedule_expressions: the tree after MergeOuterIterations
    processed,     \* the tree the scheduler returns
    mapper,        \* candidate -> its trimmed body
    visited,       \* the sections the trimming loop has been through
    scheduler,     \* "off", "trimming" or "done"
    dle_state,     \* _insert_declarations: what the loop engine hands over
    scopes,        \* the scopes, those of called routines included
    allocator,     \* the Allocator: [onheap, onstack]
    decl_mapper,   \* _insert_declarations' mapper: node -> its replacement
    nodes,         \* the routine body the pass returns
    elemental_functions,  \* the called routines the pass returns
    inspected,     \* the scopes the classifying loop has been through
    declarer       \* "off", "resolving", "classifying", "emitting" or "done"

running == <<op, python, lib, profiler, mem, pc, call, arguments, dim_sizes, at_arguments,
             blocksizes, n, timings, runs, passed, entered, status, summary>>
scheduling == <<merged, processed, mapper, visited, scheduler>>
declaring == <<dle_state, scopes, allocator, decl_mapper, nodes, elemental_functions,
               inspected, declarer>>
vars == <<running, scheduling, declaring>>

\* ---------------------------------------------------------------- inputs
MaxTime == 2
Times == 1..MaxTime

BlockValues == {NoValue, FixedValue, FnValue}
Layouts ==
    {<<>>}
    \cup {<<BlockingArg("x", v)>> : v \in BlockValues}
    \cup {<<BlockingArg("x", v), BlockingArg("y", w)>> :
             v \in {NoValue, FixedValue}, w \in {NoValue, FixedValue}}
    \cup {<<BlockingArg("time", NoValue)>>}

AllOperators ==
    [ysize : {None, BigExtent}, ux : Extents, mx : Extents, my : Extents,
     dle : Layouts, has_applied_blocking : BOOLEAN,
     needs_aggressive_autotuning : BOOLEAN, sequential : BOOLEAN,
     sections : {<<"loop_x_0">>, <<"loop_x_0", "loop_y_1">>}]

\* Positional arguments are given by name (only arg.name is ever read).
Args == {<<>>, <<"u">>, <<"u", "m">>, <<"m", "u">>, <<"u", "u">>, <<"w", "m">>,
         <<"u", "m", "w">>}
Kwargs ==
    [autotune : BOOLEAN,
     data : {EmptyMap, [k \in {"m"} |-> "m2"], [k \in {"m"} |-> "m3"]},
     dims : {EmptyMap, [k \in {"y"} |-> BigExtent - 5], [k \in {"y"} |-> BigExtent + 5],
             [k \in {"time"} |-> 5]}]

\* The inputs explored are the operators and calls that differ from one of
\* three reference operators, called the reference way, in at most
\* MaxChanges places: an operator blocked along x, an operator blocked
\* along x and y whose y is shorter, and an unblocked operator whose
\* dimension y has a fixed size.
MaxChanges == 1
RefBlocked ==
    [ysize |-> None, ux |-> BigExtent, mx |-> BigExtent, my |-> BigExtent,
     dle |-> <<BlockingArg("x", NoValue)>>, has_applied_blocking |-> TRUE,
     needs_aggressive_autotuning |-> FALSE, sequential |-> TRUE,
     sections |-> <<"loop_x_0">>]
RefTiled ==
    [RefBlocked EXCEPT !.dle = <<BlockingArg("x", NoValue), BlockingArg("y", NoValue)>>,
                       !.my = MidExtent]
RefPlain ==
    [RefBlocked EXCEPT !.dle = <<>>, !.has_applied_blocking = FALSE,
                       !.ysize = BigExtent]
RefOperators == {RefBlocked, RefTiled, RefPlain}
RefArgs == <<>>
RefKwargs == [autotune |-> TRUE, data |-> EmptyMap, dims |-> EmptyMap]

D(p) == IF p THEN 0 ELSE 1
OperatorChanges(o, r) ==
    D(o.ysize = r.ysize) + D(o.ux = r.ux) + D(o.mx = r.mx) + D(o.my = r.my)
    + D(o.dle = r.dle)
    + D(o.needs_aggressive_autotuning = r.needs_aggressive_autotuning)
    + D(o.sequential = r.sequential) + D(o.sections = r.sections)
CallChanges(args, kwargs) ==
    D(args = RefArgs) + D(kwargs.autotune = RefKwargs.autotune)
    + D(kwargs.data = RefKwargs.data) + D(kwargs.dims = RefKwargs.dims)

Operators ==
    {o \in AllOperators :
        /\ o.has_applied_blocking = (o.dle # <<>>)
        /\ \E r \in RefOperators : OperatorChanges(o, r) <= MaxChanges}
Calls(o) ==
    {c \in Args \X Kwargs :
        \E r \in RefOperators :
            OperatorChanges(o, r) + CallChanges(c[1], c[2]) <= MaxChanges}

Sections(o) == {o.sections[i] : i \in 1..Len(o.sections)}
Elapsed(o, t) == SeqSum([i \in 1..Len(o.sections) |-> t[o.sections[i]]])

NoCall == [args |-> <<>>,
           kwargs |-> [autotune |-> FALSE, data |-> EmptyMap, dims |-> EmptyMap]]
Clean == [a \in Arrays |-> "clean"]

\* The interpreters an operator is explored under.  Only line 546 depends
\* on the interpreter and only an aggressive search gets there, so an
\* operator without one is explored under a single interpreter.
InterpretersOf(o) == IF o.needs_aggressive_autotuning THEN Interpreters ELSE {"3"}

\* An operator that has not been called.
NotCalled ==
    /\ python \in InterpretersOf(op)
    /\ lib = [_lib |-> "None", _cfunction |-> "None",
              jit_compile |-> 0, load |-> 0, getattr |-> 0]
    /\ profiler = [s \in Sections(op) |-> 0]
    /\ mem = Clean
    /\ pc = "idle"
    /\ call = NoCall
    /\ arguments = <<>>
    /\ dim_sizes = EmptyMap
    /\ at_arguments = <<>>
    /\ blocksizes = <<>>
    /\ n = 0
    /\ timings = <<>>
    /\ runs = <<>>
    /\ passed = <<>>
    /\ entered = <<>>
    /\ status = ""
    /\ summary = <<>>

\* No scheduling is under way.
NotScheduling ==
    /\ merged = <<>>
    /\ processed = <<>>
    /\ mapper = EmptyMap
    /\ visited = 0
    /\ scheduler = "off"

\* No declaration pass is under way.
NoState == [scopes |-> <<>>, storage |-> EmptyMap]
NoAllocator == [onheap |-> <<>>, onstack |-> <<>>]
\* A tree, and the replacements a Transformer has made in it.
Tree(name) == [tree |-> name, replaced |-> <<>>]
Body == [header |-> <<>>, body |-> Tree("nodes"), footer |-> <<>>]
NotDeclaring ==
    /\ dle_state = NoState
    /\ scopes = <<>>
    /\ allocator = NoAllocator
    /\ decl_mapper = <<>>
    /\ nodes = Body
    /\ elemental_functions = Tree("elemental_functions")
    /\ inspected = 0
    /\ declarer = "off"

Init ==
    /\ op \in Operators
    /\ NotCalled
    /\ NotScheduling
    /\ NotDeclaring

\* --------------------------------------------------------------- actions
\* Line 200 and the return of arguments() into apply().
Finish(args) ==
    /\ arguments' = Update(args, extra_arguments)
    /\ pc' = "invoke"
    /\ status' = ""

\* apply(*args, **kwargs): the call of arguments() (line 430), up to the
\* first trial of the autotuner (lines 118-197 and 517-559).
Call(args, kwargs) ==
    /\ pc = "idle"
    /\ call' = [args |-> args, kwargs |-> kwargs]
    /\ LET b == Bind(op, args, kwargs) IN
       IF b.err # ""
       THEN /\ pc' = "raised"
            /\ status' = b.err
            /\ UNCHANGED <<arguments, dim_sizes, at_arguments, blocksizes, n, entered>>
       ELSE IF b.maybe_autotune /\ op.has_applied_blocking
               THEN LET tried == Blocksizes(python, op) IN
                    IF tried.err # ""
                    THEN /\ pc' = "raised"
                         /\ status' = tried.err
                         /\ UNCHANGED <<arguments, dim_sizes, at_arguments,
                                        blocksizes, n, entered>>
                    ELSE /\ dim_sizes' = b.dim_sizes
                         /\ arguments' = b.arguments
                         /\ entered' = <<b.arguments>>
                         /\ at_arguments' = CloneArguments(b.arguments)
                         /\ blocksizes' = tried.blocksizes
                         /\ n' = 1
                         /\ pc' = "autotune"
                         /\ status' = ""
               ELSE /\ dim_sizes' = b.dim_sizes
                    /\ Finish(b.arguments)
                    /\ UNCHANGED <<at_arguments, blocksizes, n, entered>>
    /\ timings' = <<>>
    /\ runs' = <<>>
    /\ passed' = <<>>
    /\ mem' = Clean
    /\ summary' = <<>>
    /\ UNCHANGED <<op, python, lib, profiler>>
    /\ UNCHANGED <<scheduling, declaring>>

\* One pass of the loop over the candidates (lines 560-584).
Trial ==
    /\ pc = "autotune"
    /\ n <= Len(blocksizes)
    /\ LET blocksize == blocksizes[n]
           try == TryBlocksize(op, at_arguments, blocksize, 1)
           at == Update(try.at_arguments, extra_arguments)
       IN IF try.illegal
          THEN /\ at_arguments' = try.at_arguments
               /\ n' = n + 1
               /\ UNCHANGED <<lib, profiler, mem, timings, runs, passed, pc, status>>
          ELSE /\ at_arguments' = at
               /\ lib' = cfunction(lib)
               /\ IF Convertible(op, at)
                  THEN /\ \E t \in [Sections(op) -> Times] : profiler' = t
                       /\ mem' = NativeWrites(at, mem, "trial")
                       /\ runs' = Append(runs, [trial |-> TRUE, blocksize |-> blocksize])
                       /\ passed' = at
                       /\ timings' = Put(timings, blocksize,
                                         Elapsed(op, profiler'))
                       /\ n' = n + 1
                       /\ UNCHANGED <<pc, status>>
                  ELSE /\ pc' = "raised"
                       /\ status' = "ArgumentError"
                       /\ UNCHANGED <<profiler, mem, runs, passed, timings, n>>
    /\ UNCHANGED <<op, python, call, arguments, dim_sizes, blocksizes, entered, summary>>
    /\ UNCHANGED <<scheduling, declaring>>

\* A variant of Select that returns normally from an empty search.
SelectSilent ==
    /\ pc = "autotune"
    /\ n > Len(blocksizes)
    /\ IF timings = <<>>
       THEN Finish(arguments)
       ELSE Finish(WriteBack(op, arguments, Best(timings)))
    /\ UNCHANGED <<op, python, lib, profiler, mem, call, dim_sizes, at_arguments,
                   blocksizes, n, timings, runs, passed, entered, summary>>
    /\ UNCHANGED <<scheduling, declaring>>

\* The end of the search (lines 586-591), then line 200.
Select ==
    /\ pc = "autotune"
    /\ n > Len(blocksizes)
    /\ IF timings = <<>>
       THEN /\ pc' = "raised"
            /\ status' = "ValueError"
            /\ UNCHANGED arguments
       ELSE Finish(WriteBack(op, arguments, Best(timings)))
    /\ UNCHANGED <<op, python, lib, profiler, mem, call, dim_sizes, at_arguments,
                   blocksizes, n, timings, runs, passed, entered, summary>>
    /\ UNCHANGED <<scheduling, declaring>>

\* apply(), lines 433-436: the real invocation and the summary.
Invoke ==
    /\ pc = "invoke"
    /\ lib' = cfunction(lib)
    /\ IF Convertible(op, arguments)
       THEN /\ \E t \in [Sections(op) -> Times] : profiler' = t
            /\ mem' = NativeWrites(arguments, mem, "apply")
            /\ runs' = Append(runs, [trial |-> FALSE, blocksize |-> <<>>])
            /\ passed' = arguments
            /\ summary' = profile_summary(op, dim_sizes, profiler')
            /\ pc' = "returned"
            /\ status' = "ok"
       ELSE /\ pc' = "raised"
            /\ status' = "ArgumentError"
            /\ UNCHANGED <<profiler, mem, runs, passed, summary>>
    /\ UNCHANGED <<op, python, call, arguments, dim_sizes, at_arguments, blocksizes, n,
                   timings, entered>>
    /\ UNCHANGED <<scheduling, declaring>>

\* The call is over; its locals are dropped.
Return ==
    /\ pc \in {"returned", "raised"}
    /\ pc' = "idle"
    /\ call' = NoCall
    /\ arguments' = <<>>
    /\ dim_sizes' = EmptyMap
    /\ at_arguments' = <<>>
    /\ blocksizes' = <<>>
    /\ n' = 0
    /\ timings' = <<>>
    /\ runs' = <<>>
    /\ passed' = <<>>
    /\ entered' = <<>>
    /\ status' = ""
    /\ summary' = <<>>
    /\ UNCHANGED <<op, python, lib, profiler, mem>>
    /\ UNCHANGED <<scheduling, declaring>>

\* Reading the compile property (lines 228-244).
AccessCompile ==
    /\ pc = "idle"
    /\ lib._lib = "None" => lib.jit_compile < MaxCompile
    /\ lib' = compile(lib)
    /\ UNCHANGED <<op, python, profiler, mem, pc, call, arguments, dim_sizes, at_arguments,
                   blocksizes, n, timings, runs, passed, entered, status, summary>>
    /\ UNCHANGED <<scheduling, declaring>>

\* Reading the cfunction property (lines 246-261).
AccessCfunction ==
    /\ pc = "idle"
    /\ lib' = cfunction(lib)
    /\ UNCHANGED <<op, python, profiler, mem, pc, call, arguments, dim_sizes, at_arguments,
                   blocksizes, n, timings, runs, passed, entered, status, summary>>
    /\ UNCHANGED <<scheduling, declaring>>

Apply == \E c \in Calls(op) : Call(c[1], c[2])

Next ==
    \/ Apply
    \/ Trial
    \/ Select
    \/ Invoke
    \/ Return
    \/ AccessCompile
    \/ AccessCfunction

Spec == Init /\ [][Next]_vars

TypeOK == pc \in {"idle", "autotune", "invoke", "returned", "raised"}

\* ------------------------------------------- _schedule_expressions()
\* The tree after MergeOuterIterations (line 314), as FindSections sees it:
\* a sequence of sections, one per innermost Iteration (the candidate), each
\* with the nodes found in it and whether IsPerfectIteration holds of it.
\* A node is [id, is_Expression, stencil]; id is its place in the section.
Stencils == {"a", "b"}
MaxNodes == 3
NodeKinds == [is_Expression : BOOLEAN, stencil : Stencils]
Numbered(f) ==
    [i \in 1..Len(f) |-> [id |-> i, is_Expression |-> f[i].is_Expression,
                          stencil |-> f[i].stencil]]
Bodies ==
    UNION {{Numbered(f) : f \in [1..k -> NodeKinds]} : k \in 0..MaxNodes}
Section(perfect, v) == [perfect |-> perfect, nodes |-> v]
AnySections == {Section(p, b) : p \in BOOLEAN, b \in Bodies}
\* Sections in which the first expression comes again after another one.
Repeating ==
    <<[id |-> 1, is_Expression |-> TRUE, stencil |-> "a"],
      [id |-> 2, is_Expression |-> TRUE, stencil |-> "b"],
      [id |-> 3, is_Expression |-> TRUE, stencil |-> "a"]>>
RepeatingSections == {Section(p, Repeating) : p \in BOOLEAN}
Trees ==
    {<<s>> : s \in AnySections}
    \cup {<<s, t>> : s \in AnySections, t \in RepeatingSections}
    \cup {<<t, s>> : s \in AnySections, t \in RepeatingSections}

\* A variant of Trim that forgets what it has found.
RECURSIVE TrimForgetful(_, _, _)
TrimForgetful(v, found, trimmed) ==
    IF v = <<>> THEN trimmed
    ELSE TrimForgetful(Tail(v), found, Append(trimmed, v[1]))

\* Lines 322-332: the nodes of a section less the expressions whose
\* stencil was found before.
RECURSIVE Trim(_, _, _)
Trim(v, found, trimmed) ==
    IF v = <<>> THEN trimmed
    ELSE LET node == v[1] IN
         IF node.is_Expression
         THEN IF node.stencil \notin found
              THEN Trim(Tail(v), found \cup {node.stencil}, Append(trimmed, node))
              ELSE Trim(Tail(v), found, trimmed)
         ELSE Trim(Tail(v), found, Append(trimmed, node))

\* The scheduler has merged the outer iterations (line 314).
InitSchedule ==
    /\ op = RefPlain
    /\ NotCalled
    /\ merged \in Trees
    /\ processed = merged
    /\ mapper = EmptyMap
    /\ visited = 0
    /\ scheduler = "trimming"
    /\ NotDeclaring

\* Lines 318-333: one pass of the loop over the sections.
TrimSection ==
    /\ scheduler = "trimming"
    /\ visited < Len(merged)
    /\ LET candidate == visited + 1 IN
       IF ~merged[candidate].perfect
       THEN UNCHANGED mapper
       ELSE mapper' = (candidate :> Trim(merged[candidate].nodes, {}, <<>>)) @@ mapper
    /\ visited' = visited + 1
    /\ UNCHANGED <<merged, processed, scheduler>>
    /\ UNCHANGED <<running, declaring>>

\* Line 334: Transformer(mapper).visit(processed) puts every mapped
\* candidate's new Iteration in its place.
Transform ==
    /\ scheduler = "trimming"
    /\ visited = Len(merged)
    /\ processed' = [i \in 1..Len(merged) |->
                        IF i \in DOMAIN mapper
                        THEN Section(merged[i].perfect, mapper[i])
                        ELSE merged[i]]
    /\ scheduler' = "done"
    /\ UNCHANGED <<merged, mapper, visited>>
    /\ UNCHANGED <<running, declaring>>

NextSchedule ==
    \/ TrimSection
    \/ Transform

SpecSchedule == InitSchedule /\ [][NextSchedule]_vars

\* ------------------------------------------- _insert_declarations()
\* What FindScopes finds: a sequence of [k, v], k an Expression or a
\* FunCall and v the chain of Iterations around it (named by dimension).
\* An Expression writes a scalar or a function: s is a scalar, p a kernel
\* parameter, a and b tensors; a's index is x and b's is y.
Expr(f, scalar) ==
    [is_FunCall |-> FALSE, name |-> "", is_scalar |-> scalar, output_function |-> f]
FunCall(name) ==
    [is_FunCall |-> TRUE, name |-> name, is_scalar |-> FALSE, output_function |-> ""]
Scope(k, v) == [k |-> k, v |-> v]
Found == {Expr("s", TRUE), Expr("p", FALSE), Expr("a", FALSE), Expr("b", FALSE),
          FunCall("f")}
Chains == {<<"t", "x">>, <<"t", "y">>}
MaxScopes == 2
AllScopes ==
    UNION {[1..k -> {Scope(e, v) : e \in Found, v \in Chains}] : k \in 1..MaxScopes}
\* The storage the loop engine chose for the functions (_mem_external,
\* _mem_stack, else heap); a scalar has no mark.
Storages ==
    {("p" :> "external") @@ st : st \in [{"a", "b"} -> {"external", "stack", "heap"}]}
function_indices(f) == IF f = "a" THEN {"x"} ELSE IF f = "b" THEN {"y"} ELSE {}

\* dle_state.func_table: the routine f writes a and a scalar in a loop i.
func_table(name) == <<Scope(Expr("a", FALSE), <<"i">>), Scope(Expr("s", TRUE), <<"i">>)>>

\* A node is named by the tree it is in (the body, "nodes", or a routine
\* of func_table) and by its place among the scopes found in that tree (an
\* Expression or a FunCall) or its path from the root of that tree (an
\* Iteration): one object has one name, however many calls lead to it.
ExprNode(tree, i) == [tree |-> tree, path |-> <<>>, expr |-> i]
IterNode(tree, path) == [tree |-> tree, path |-> path, expr |-> 0]
Located(k, v, node, calls) == [k |-> k, v |-> v, node |-> node, calls |-> calls]

\* Lines 343-349: the scopes of a called routine stand in for the call,
\* with the call's chain before their own (queue=list(v)).  A scope keeps
\* the name of its expression and how many of its iterations are the call's.
RECURSIVE ResolveCalls(_, _)
ResolveCalls(found, i) ==
    IF i > Len(found) THEN <<>>
    ELSE LET k == found[i].k
             v == found[i].v
             function == func_table(k.name)
         IN (IF k.is_FunCall
             THEN [j \in 1..Len(function) |->
                      Located(function[j].k, v \o function[j].v,
                              ExprNode(k.name, j), Len(v))]
             ELSE <<Located(k, v, ExprNode("nodes", i), Len(v))>>)
            \o ResolveCalls(found, i + 1)

\* The r-th Iteration around a scope.
IterationAt(sc, r) ==
    IF r <= sc.calls THEN IterNode("nodes", SubSeq(sc.v, 1, r))
    ELSE IterNode(sc.node.tree, SubSeq(sc.v, sc.calls + 1, r))

\* A variant of StorageClass that does not look for kernel arguments.
StorageClassUnchecked(storage, k) ==
    IF k.is_scalar THEN "scalar"
    ELSE IF storage[k.output_function] = "stack" THEN "stack"
    ELSE "heap"

\* Lines 355-369: the tests on a scope's expression, in order.
StorageClass(storage, k) ==
    IF k.is_scalar THEN "scalar"
    ELSE IF storage[k.output_function] = "external" THEN "external"
    ELSE IF storage[k.output_function] = "stack" THEN "stack"
    ELSE "heap"

\* filter_iterations(v, key, stop='consecutive')[-1]: the last of the
\* leading iterations that do not run over the function's own indices.
RECURSIVE LeadingRun(_, _, _)
LeadingRun(v, f, r) ==
    IF r < Len(v) /\ v[r + 1] \notin function_indices(f)
    THEN LeadingRun(v, f, r + 1) ELSE r
StackSite(sc, f) == IterationAt(sc, LeadingRun(sc.v, f, 0))

\* Allocator.push_heap and push_stack: an object is recorded once, the
\* objects on the stack under their site; onstack is a sequence of
\* [k, v], a site and its objects.
push_heap(a, f) ==
    IF \E i \in 1..Len(a.onheap) : a.onheap[i] = f THEN a
    ELSE [a EXCEPT !.onheap = Append(@, f)]
push_stack(a, site, f) ==
    LET handle == IF Has(a.onstack, site) THEN Get(a.onstack, site) ELSE <<>>
    IN IF \E i \in 1..Len(handle) : handle[i] = f THEN a
       ELSE [a EXCEPT !.onstack = Put(@, site, Append(handle, f))]

\* Line 357 and lines 372-373: what the mapper holds for a scalar's
\* expression and for the site of stack declarations (the Elements go
\* before the Iteration's own nodes).
Element(f) == [element |-> f]
LocalExpression == [cls |-> "LocalExpression", allocs |-> <<>>]
Iteration(allocs) == [cls |-> "Iteration", allocs |-> allocs]

\* Lines 371-373: one mapper entry per site of the stack.
RECURSIVE StackDeclarations(_, _)
StackDeclarations(m, onstack) ==
    IF onstack = <<>> THEN m
    ELSE LET k == onstack[1].k
             v == onstack[1].v
             allocs == [i \in 1..Len(v) |-> Element(v[i])]
         IN StackDeclarations(Put(m, k, Iteration(allocs)), Tail(onstack))

\* Transformer(mapper).visit(tree): the tree with the mapper's
\* replacements made in it.
Transformer(m, t) == [t EXCEPT !.replaced = m]

\* The loop engine has transformed the tree (line 103).
InitDeclare ==
    /\ op = RefPlain
    /\ NotCalled
    /\ NotScheduling
    /\ dle_state \in [scopes : AllScopes, storage : Storages]
    /\ scopes = <<>>
    /\ allocator = NoAllocator
    /\ decl_mapper = <<>>
    /\ nodes = Body
    /\ elemental_functions = Tree("elemental_functions")
    /\ inspected = 0
    /\ declarer = "resolving"

\* Lines 342-349.
Resolve ==
    /\ declarer = "resolving"
    /\ scopes' = ResolveCalls(dle_state.scopes, 1)
    /\ declarer' = "classifying"
    /\ UNCHANGED <<dle_state, allocator, decl_mapper, nodes, elemental_functions,
                   inspected>>
    /\ UNCHANGED <<running, scheduling>>

\* Lines 354-369: one pass of the loop over the scopes.
Classify ==
    /\ declarer = "classifying"
    /\ inspected < Len(scopes)
    /\ LET sc == scopes[inspected + 1]
           k == sc.k
           class == StorageClass(dle_state.storage, k)
       IN /\ decl_mapper' = IF class = "scalar"
                            THEN Put(decl_mapper, sc.node, LocalExpression)
                            ELSE decl_mapper
          /\ allocator' =
               CASE class = "stack" ->
                      push_stack(allocator, StackSite(sc, k.output_function),
                                 k.output_function)
                 [] class = "heap" -> push_heap(allocator, k.output_function)
                 [] OTHER -> allocator
    /\ inspected' = inspected + 1
    /\ UNCHANGED <<dle_state, scopes, nodes, elemental_functions, declarer>>
    /\ UNCHANGED <<running, scheduling>>

\* Lines 371-382: the stack declarations go into the mapper, the mapper
\* into the body and the called routines, and the heap declarations,
\* allocations and frees around the whole body.
Statement(what, f) == [what |-> what, of |-> f]
Emit ==
    /\ declarer = "classifying"
    /\ inspected = Len(scopes)
    /\ LET onheap == allocator.onheap
           decls == [i \in 1..Len(onheap) |-> Statement("decl", onheap[i])]
           allocs == [i \in 1..Len(onheap) |-> Statement("alloc", onheap[i])]
           frees == [i \in 1..Len(onheap) |-> Statement("free", onheap[i])]
           filled == StackDeclarations(decl_mapper, allocator.onstack)
           visited_ == Transformer(filled, nodes.body)
       IN /\ decl_mapper' = filled
          /\ elemental_functions' = Transformer(filled, elemental_functions)
          /\ nodes' = IF onheap # <<>>
                      THEN [header |-> decls \o allocs, body |-> visited_,
                            footer |-> frees]
                      ELSE [nodes EXCEPT !.body = visited_]
    /\ declarer' = "done"
    /\ UNCHANGED <<dle_state, scopes, allocator, inspected>>
    /\ UNCHANGED <<running, scheduling>>

NextDeclare ==
    \/ Resolve
    \/ Classify
    \/ Emit

SpecDeclare == InitDeclare /\ [][NextDeclare]_vars

\* ------------------------------------------------------------ properties
\* What the properties speak of.
Searching == entered # <<>>
Caller == entered[1]
Searched == Searching /\ pc = "invoke"
TrialRuns == SelectSeq(runs, LAMBDA r : r.trial)
Executed == {TrialRuns[i].blocksize : i \in 1..Len(TrialRuns)}
Recorded(c) == Get(timings, c)
FirstAt(c) == CHOOSE i \in 1..Len(blocksizes) :
                  /\ blocksizes[i] = c
                  /\ \A j \in 1..(i - 1) : blocksizes[j] # c
BlockingNames == {op.dle[i].argument : i \in 1..Len(op.dle)}
Holds(mapping, c) ==
    \A k \in BlockingNames : Get(mapping, k) = IntV(Get(c, k))

\* The extent a trial sees for dimension d: the squeezed value for a
\* squeezable dimension, else what the caller's mapping binds to it, else
\* the dimension's fixed size.
TrialExtent(d) ==
    IF d \in squeezable(op) THEN at_squeezer
    ELSE IF Has(Caller, d) THEN Get(Caller, d).val ELSE size(op, d)
LegalCandidate(c) ==
    \A i \in 1..Len(c) : c[i].v <= TrialExtent(Mapper(op, c[i].k).original_dim)
BoundExtent(mapping, d) ==
    IF Has(mapping, d) THEN Get(mapping, d).val ELSE size(op, d)

\* C1: once _autotune has returned normally, the blocking parameters of the
\* caller's mapping hold the values of an executed candidate whose recorded
\* time is least among the executed candidates and, among those of least
\* time, the one that comes first in candidate order.
C1_SelectsFirstMinimum ==
    Searched =>
        \E c \in Executed :
            /\ \A d \in Executed : Recorded(c) <= Recorded(d)
            /\ \A d \in Executed : Recorded(d) = Recorded(c) => FirstAt(c) <= FirstAt(d)
            /\ Holds(arguments, c)

\* C1 witness: a finished search in which two executed candidates tie at
\* the least time and a third time is larger or the tie is all there is.
C1_Witness ==
    /\ Searched
    /\ \E c, d \in Executed :
          /\ c # d
          /\ Recorded(c) = Recorded(d)
          /\ \A e \in Executed : Recorded(c) <= Recorded(e)
          /\ FirstAt(c) < FirstAt(d)
          /\ Holds(arguments, c)

\* C2: the candidates executed so far are exactly the legal ones among the
\* candidates passed so far, in candidate order (an illegal candidate is
\* skipped and the search goes on); only legal candidates have a recorded
\* time; the selected values are legal; and in the mapping of a trial every
\* blocking parameter is at most the extent that mapping binds to its
\* dimension.
C2_OnlyLegalTrials ==
    (Searching /\ pc \in {"autotune", "invoke", "returned"}) =>
        /\ [i \in 1..Len(TrialRuns) |-> TrialRuns[i].blocksize]
             = SelectSeq(SubSeq(blocksizes, 1, n - 1), LegalCandidate)
        /\ \A i \in 1..Len(timings) : LegalCandidate(timings[i].k)
        /\ (runs # <<>> /\ runs[Len(runs)].trial) =>
              \A i \in 1..Len(op.dle) :
                  /\ Get(passed, op.dle[i].argument).kind = "int"
                  /\ Get(passed, op.dle[i].argument).val
                        <= BoundExtent(passed, op.dle[i].original_dim)
        /\ pc # "autotune" =>
              \A i \in 1..Len(op.dle) :
                  Get(arguments, op.dle[i].argument).val
                     <= TrialExtent(op.dle[i].original_dim)

\* C2 witness: a finished search that skipped an illegal candidate and
\* executed a later one.
C2_Witness ==
    /\ Searched
    /\ \E i, j \in 1..Len(blocksizes) :
          /\ i < j
          /\ ~LegalCandidate(blocksizes[i])
          /\ LegalCandidate(blocksizes[j])
          /\ blocksizes[j] \in Executed

\* C3: during and after the search the caller's mapping keeps its keys,
\* and every entry that is no blocking parameter keeps its value (the same
\* array object, the unsqueezed extent); no array of the caller's mapping is
\* written by a trial; the outputs a trial gets are none of the caller's.
C3_SearchFrame ==
    (Searching /\ pc \in {"autotune", "invoke", "raised"}) =>
        /\ \A i \in 1..Len(Caller) :
              /\ arguments[i].k = Caller[i].k
              /\ ~InMapper(op, Caller[i].k) => arguments[i].v = Caller[i].v
        /\ pc # "invoke" => arguments = Caller
        /\ \A i \in 1..Len(Caller) :
              Caller[i].v.kind = "array" => mem[Caller[i].v] = "clean"
        /\ \A i \in 1..Len(passed) :
              (passed[i].k \in output /\ passed[i].v.kind = "array") =>
                  \A j \in 1..Len(Caller) : Caller[j].v # passed[i].v

\* C3 witness: a finished search whose trials wrote their private output,
\* ran on a squeezed extent, and changed a blocking parameter.
C3_Witness ==
    /\ Searched
    /\ \E a \in Arrays : mem[a] = "trial"
    /\ \E d \in squeezable(op) :
          /\ Get(passed, d).val = at_squeezer
          /\ Get(arguments, d).val # at_squeezer
    /\ \E k \in BlockingNames : Get(arguments, k) # Get(Caller, k)

\* C4: a search all of whose candidates are illegal does not return: it
\* ends raising, with no trial run and the caller's mapping as it was.
C4_EmptySearchRaises ==
    (Searching /\ pc # "autotune"
       /\ \A i \in 1..Len(blocksizes) : ~LegalCandidate(blocksizes[i])) =>
        /\ pc = "raised"
        /\ status = "ValueError"
        /\ runs = <<>>
        /\ arguments = Caller

\* C4 witness: a search over illegal candidates only has raised.
C4_Witness ==
    /\ Searching
    /\ pc = "raised"
    /\ status = "ValueError"
    /\ blocksizes # <<>>
    /\ \A i \in 1..Len(blocksizes) : ~LegalCandidate(blocksizes[i])

\* The arrays a call traverses: the declared data, with keyword overrides,
\* as far as the positional arguments reach.
Traversed(o, c) ==
    LET fs == [i \in 1..Len(DataParams) |->
                  IF DataParams[i] \in DOMAIN c.kwargs.data
                  THEN c.kwargs.data[DataParams[i]] ELSE DataParams[i]]
        reach == IF c.args = <<>> \/ Len(c.args) > Len(fs) THEN Len(fs) ELSE Len(c.args)
    IN SubSeq(fs, 1, reach)
ShapeMismatch(o, c) ==
    \E k \in DOMAIN c.kwargs.data : shape(o, k) # shape(o, c.kwargs.data[k])
FixedMismatch(o, c) ==
    \E j \in 1..Len(Traversed(o, c)) :
        LET f == Traversed(o, c)[j] IN
        \E i \in 1..Len(indices(f)) :
            /\ size(o, indices(f)[i]) # None
            /\ ~is_Buffered(indices(f)[i])
            /\ size(o, indices(f)[i]) # shape(o, f)[i]
Indexed(o, c, d) ==
    \E j \in 1..Len(Traversed(o, c)) :
        \E i \in 1..Len(indices(Traversed(o, c)[j])) :
            indices(Traversed(o, c)[j])[i] = d
Unresolved(o, c) ==
    \E d \in {"x", "y", "t", "time"} :
        /\ size(o, d) = None
        /\ ~Indexed(o, c, d)
        /\ d \notin DOMAIN c.kwargs.dims
        /\ \A e \in {"t"} : parent(e) = d => ~Indexed(o, c, e)
Defective(o, c) == ShapeMismatch(o, c) \/ FixedMismatch(o, c) \/ Unresolved(o, c)

\* C5: a call with a shape mismatch on a keyword override, an open
\* dimension fixed by no array and no keyword, or a fixed non-buffered
\* dimension that differs from the array's extent, raises a validation
\* failure and runs the native routine not once, trials included.
C5_ValidationBeforeNative ==
    (pc # "idle" /\ Defective(op, call)) =>
        /\ pc = "raised"
        /\ status \in {"InvalidArgument", "AssertionError", "KeyError"}
        /\ runs = <<>>
        /\ passed = <<>>

\* C5 witness: a defective call that asked for tuning of a blocked operator
\* without user block sizes has raised.
C5_Witness ==
    /\ pc = "raised"
    /\ Defective(op, call)
    /\ call.kwargs.autotune
    /\ op.has_applied_blocking
    /\ \A i \in 1..Len(op.dle) : op.dle[i].value.kind = "none"

\* The binding of the running call has succeeded.
Bound == pc \in {"autotune", "invoke", "returned"}
OpenDims(o) == {d \in {"x", "y", "t", "time"} : size(o, d) = None}
\* The extents the traversed arrays have along dimension d, in order.
ExtentsAlong(o, c, d) ==
    Flatten([j \in 1..Len(Traversed(o, c)) |->
        LET f == Traversed(o, c)[j]
            at == SelectSeq([i \in 1..Len(indices(f)) |-> i],
                            LAMBDA i : indices(f)[i] = d)
        IN [q \in 1..Len(at) |-> shape(o, f)[at[q]]]])
FromKeywordOrFirstArray(d) ==
    /\ d \in DOMAIN dim_sizes
    /\ d \in DOMAIN call.kwargs.dims => dim_sizes[d] = call.kwargs.dims[d]
    /\ (d \notin DOMAIN call.kwargs.dims /\ Indexed(op, call, d)) =>
          dim_sizes[d] = ExtentsAlong(op, call, d)[1]
    /\ ~is_Buffered(d) =>
          \A q \in 1..Len(ExtentsAlong(op, call, d)) :
              dim_sizes[d] <= ExtentsAlong(op, call, d)[q]

\* C6 as stated: after a successful binding every open dimension is
\* resolved to its keyword override if there is one, else to the extent of
\* the first bound array indexed by it, and a non-buffered one never
\* exceeds the extent of a bound array indexed by it.
C6_EveryOpenDimension ==
    Bound => \A d \in OpenDims(op) : FromKeywordOrFirstArray(d)

\* C6 as amended: the same for every open dimension that indexes a bound
\* array; an open dimension that indexes none is the parent of a buffered
\* dimension and takes that dimension's resolved extent, whatever keyword
\* names it.
C6_IndexedOpenDimension ==
    Bound =>
        \A d \in OpenDims(op) :
            IF Indexed(op, call, d)
            THEN FromKeywordOrFirstArray(d)
            ELSE \E e \in OpenDims(op) :
                    /\ is_Buffered(e) /\ parent(e) = d /\ Indexed(op, call, e)
                    /\ d \in DOMAIN dim_sizes
                    /\ dim_sizes[d] = dim_sizes[e]

\* C6 witness: a binding that took a keyword below the array's extent for
\* one dimension and the first array's extent for another.
C6_Witness ==
    /\ Bound
    /\ \E d \in OpenDims(op) :
          /\ d \in DOMAIN call.kwargs.dims /\ Indexed(op, call, d)
          /\ dim_sizes[d] = call.kwargs.dims[d]
          /\ dim_sizes[d] < ExtentsAlong(op, call, d)[1]
    /\ \E d \in OpenDims(op) :
          /\ d \notin DOMAIN call.kwargs.dims /\ Indexed(op, call, d)
          /\ ~is_Buffered(d)
          /\ dim_sizes[d] = ExtentsAlong(op, call, d)[1]

\* C7: the mapping arguments() returns has exactly the declared parameter
\* names as keys, in declared order, followed by the profiler argument
\* only; every data parameter is bound to an array and every dimension
\* parameter to an integer.
C7_CompleteOrdered ==
    pc = "invoke" =>
        /\ Keys(arguments) = ParamNames(op) \o Keys(extra_arguments)
        /\ \A i \in 1..Len(parameters(op)) :
              arguments[i].v.kind = IF parameters(op)[i].is_data THEN "array" ELSE "int"

FullExtent(i) ==
    IF i.original_dim \in DOMAIN dim_sizes THEN dim_sizes[i.original_dim]
    ELSE size(op, i.original_dim)

\* C8: a search is entered and trials run only if the caller asked for
\* tuning, blocking was applied and no blocking parameter has a fixed
\* value; in the returned mapping a blocking parameter with a fixed value
\* holds that value, and one with no value holds the full extent of its
\* dimension unless a search has run.
C8_TuningGate ==
    /\ (Searching \/ TrialRuns # <<>>) =>
          /\ call.kwargs.autotune
          /\ op.has_applied_blocking
          /\ \A i \in 1..Len(op.dle) : op.dle[i].value.kind # "fixed"
    /\ pc = "invoke" =>
          \A i \in 1..Len(op.dle) :
              /\ op.dle[i].value.kind = "fixed" =>
                    Get(arguments, op.dle[i].argument) = IntV(op.dle[i].value.val)
              /\ (op.dle[i].value.kind = "none" /\ ~Searching) =>
                    Get(arguments, op.dle[i].argument) = IntV(FullExtent(op.dle[i]))

\* C8 witness: tuning was asked of an operator with one fixed and one free
\* blocking parameter; the mapping was returned without a trial.
C8_Witness ==
    /\ pc = "invoke"
    /\ call.kwargs.autotune
    /\ runs = <<>>
    /\ \E i, j \in 1..Len(op.dle) :
          /\ op.dle[i].value.kind = "fixed"
          /\ op.dle[j].value.kind = "none"
          /\ Get(arguments, op.dle[i].argument).val = UserBlock
          /\ Get(arguments, op.dle[j].argument).val > UserBlock

Uniform(v) == [i \in 1..Len(op.dle) |-> Item(op.dle[i].argument, v)]

\* C9: the candidates of a search are the configured block sizes, each
\* applied to all blocking parameters, and the candidate of unit block
\* size.
C9_CandidatesWithUnit ==
    Searching =>
        {blocksizes[i] : i \in 1..Len(blocksizes)}
          = {Uniform(at_blocksize[i]) : i \in 1..Len(at_blocksize)} \cup {Uniform(1)}

\* C10: whatever the accesses to compile and cfunction, the operator is
\* compiled at most once, its library loaded at most once and its entry
\* point resolved at most once.
C10_OnceEach ==
    /\ lib.jit_compile <= 1
    /\ lib.load <= 1
    /\ lib.getattr <= 1

\* The entry the summary has for section s: under its label, or under
\* "main" when the label is gone.
EntryOf(s) == IF Has(summary, s) THEN Get(summary, s) ELSE Get(summary, "main")
Slowest == {s \in Sections(op) : \A r \in Sections(op) : profiler[r] <= profiler[s]}

\* C11: the summary apply() returns has the key "main", bound to the entry
\* of a section of largest measured time; that section's own label is gone,
\* every other section keeps its label and its entry, and the summary has
\* exactly one entry per profiled section.
C11_MainIsMostConsuming ==
    pc = "returned" =>
        /\ Has(summary, "main")
        /\ Len(summary) = Cardinality(Sections(op))
        /\ \A i, j \in 1..Len(summary) : summary[i].k = summary[j].k => i = j
        /\ \E s \in Slowest :
              /\ ~Has(summary, s)
              /\ Get(summary, "main") = PerfEntry(op, dim_sizes, profiler, Profile(s))
              /\ Get(summary, "main").time = profiler[s]
              /\ \A r \in Sections(op) \ {s} :
                    /\ Has(summary, r)
                    /\ Get(summary, r) = PerfEntry(op, dim_sizes, profiler, Profile(r))
                    /\ Get(summary, r).time = profiler[r]

\* C11 witness: of two sections the second took longer and is "main"; the
\* first is still under its label.
C11_Witness ==
    /\ pc = "returned"
    /\ Len(op.sections) = 2
    /\ profiler[op.sections[1]] < profiler[op.sections[2]]
    /\ Get(summary, "main").time = profiler[op.sections[2]]
    /\ Has(summary, op.sections[1])
    /\ ~Has(summary, op.sections[2])

\* The size of dimension d: declared, or resolved by the binding (a
\* buffered dimension counts as its parent).
ResolvedSize(d) == IF size(op, d) # None THEN size(op, d) ELSE dim_sizes[parent(d)]
\* The iterations of i: its size less the span of its offsets.
RealizedExtent(i) == ResolvedSize(i.dim) - (i.hi - i.lo)

\* C12: for each profiled section the summary's flops are the static op
\* count times the product of the realized iteration extents, its traffic
\* the element size times the static memory count times the product of the
\* sizes of the dimensions, its operational intensity flops over traffic
\* and its throughput flops over the measured time.
C12_FlopsAndTraffic ==
    pc = "returned" =>
        \A s \in Sections(op) :
            LET its == Profile(s).itspace
                flops == Profile(s).ops
                           * SeqProduct([i \in 1..Len(its) |-> RealizedExtent(its[i])])
                traffic == ItemSize * Profile(s).memory
                             * SeqProduct([i \in 1..Len(its) |-> ResolvedSize(its[i].dim)])
            IN /\ EntryOf(s).oi = Quotient(flops, traffic)
               /\ EntryOf(s).gflopss = Quotient(flops, profiler[s])
               /\ EntryOf(s).itershape = [i \in 1..Len(its) |-> RealizedExtent(its[i])]
               /\ EntryOf(s).datashape = [i \in 1..Len(its) |-> ResolvedSize(its[i].dim)]

\* C12 witness: a section of 2 ops and 1 memory access ran over a 10 x 10
\* shape of 8-byte elements: 200 flops over 800 bytes.
C12_Witness ==
    /\ pc = "returned"
    /\ \E s \in Sections(op) :
          /\ Profile(s).ops = 2 /\ Profile(s).memory = 1
          /\ EntryOf(s).datashape = <<10, 10>>
          /\ EntryOf(s).itershape = <<10, 10>>
          /\ EntryOf(s).oi = Quotient(200, 800)

\* The expressions of a section that come first with their stencil, and
\* all its other nodes.
FirstOfStencil(v, node) ==
    \/ ~node.is_Expression
    \/ \A i \in 1..Len(v) :
          (v[i].is_Expression /\ v[i].stencil = node.stencil) =>
              v[i].id >= node.id

\* C13: after scheduling, a perfect scope has no two expression nodes of
\* the same stencil; its nodes are, in their old order, every
\* non-expression node and the first expression node of each stencil; a
\* scope that is not perfect is as it was.
C13_PerfectScopesTrimmed ==
    scheduler = "done" =>
        /\ Len(processed) = Len(merged)
        /\ \A i \in 1..Len(processed) :
              IF merged[i].perfect
              THEN /\ \A j, k \in 1..Len(processed[i].nodes) :
                         (/\ processed[i].nodes[j].is_Expression
                          /\ processed[i].nodes[k].is_Expression
                          /\ processed[i].nodes[j].stencil = processed[i].nodes[k].stencil)
                         => j = k
                   /\ processed[i].nodes
                        = SelectSeq(merged[i].nodes,
                                    LAMBDA node : FirstOfStencil(merged[i].nodes, node))
                   /\ processed[i].perfect
              ELSE processed[i] = merged[i]

\* C13 witness: the scheduler took a repeated expression out of a perfect
\* scope that kept a non-expression node of the same stencil, and left a
\* scope that is not perfect with its repeated expression.
C13_Witness ==
    /\ scheduler = "done"
    /\ \E i \in 1..Len(processed) :
          /\ merged[i].perfect
          /\ Len(processed[i].nodes) < Len(merged[i].nodes)
          /\ \E j, k \in 1..Len(processed[i].nodes) :
                /\ j # k
                /\ ~processed[i].nodes[j].is_Expression
                /\ processed[i].nodes[j].stencil = processed[i].nodes[k].stencil
    /\ \E i \in 1..Len(processed) :
          /\ ~merged[i].perfect
          /\ \E j, k \in 1..Len(processed[i].nodes) :
                /\ j # k
                /\ processed[i].nodes[j].is_Expression
                /\ processed[i].nodes[k].is_Expression
                /\ processed[i].nodes[j].stencil = processed[i].nodes[k].stencil

\* The functions some scope writes as a tensor kept on the heap.
HeapFunctions ==
    {scopes[i].k.output_function :
        i \in {j \in 1..Len(scopes) :
                  /\ ~scopes[j].k.is_scalar
                  /\ dle_state.storage[scopes[j].k.output_function] = "heap"}}
Count(stmts, what, f) ==
    Cardinality({i \in 1..Len(stmts) : stmts[i] = Statement(what, f)})
ScopesOf(f) == {i \in 1..Len(scopes) : scopes[i].k.output_function = f}

\* C14: after declaration insertion every function on the heap has exactly
\* one allocation, in the header before the whole body, and exactly one
\* release, in the footer after it, however many scopes write it; nothing
\* else is allocated or released: no scalar and no kernel argument, and
\* nothing on the heap is declared inside the body.
C14_OneAllocationOneRelease ==
    declarer = "done" =>
        /\ nodes.body.tree = Body.body.tree
        /\ \A i \in 1..Len(nodes.body.replaced) :
              \A j \in 1..Len(nodes.body.replaced[i].v.allocs) :
                  nodes.body.replaced[i].v.allocs[j].element \notin HeapFunctions
        /\ \A f \in HeapFunctions :
              /\ Count(nodes.header, "alloc", f) = 1
              /\ Count(nodes.footer, "free", f) = 1
              /\ Count(nodes.header, "free", f) = 0
              /\ Count(nodes.footer, "alloc", f) = 0
        /\ \A i \in 1..Len(nodes.header) : nodes.header[i].of \in HeapFunctions
        /\ \A i \in 1..Len(nodes.footer) : nodes.footer[i].of \in HeapFunctions
        /\ \A i \in 1..Len(scopes) :
              (\/ scopes[i].k.is_scalar
               \/ dle_state.storage[scopes[i].k.output_function] = "external") =>
                  /\ Count(nodes.header, "alloc", scopes[i].k.output_function) = 0
                  /\ \A j \in 1..Len(allocator.onheap) :
                        allocator.onheap[j] # scopes[i].k.output_function \/
                        scopes[i].k.output_function \in HeapFunctions

\* C14 witness: a function on the heap is written in two scopes, one of
\* them in a called routine, next to a scalar; it has its one allocation.
C14_Witness ==
    /\ declarer = "done"
    /\ \E f \in HeapFunctions :
          /\ Cardinality(ScopesOf(f)) >= 2
          /\ \E i \in ScopesOf(f) : \E j \in 1..Len(scopes[i].v) : scopes[i].v[j] = "i"
          /\ \E i \in ScopesOf(f) : \A j \in 1..Len(scopes[i].v) : scopes[i].v[j] # "i"
          /\ Count(nodes.header, "alloc", f) = 1
    /\ \E i \in 1..Len(scopes) : scopes[i].k.is_scalar

\* The base candidates, candidate c with the last component of d, and
\* candidate c with the values of the parameters in S doubled.
Base == [i \in 1..Len(at_blocksize) |-> Uniform(at_blocksize[i])]
WithLastOf(c, d) == [k \in 1..Len(c) |-> IF k = Len(c) THEN d[Len(d)] ELSE c[k]]
DoubledOn(c, S) ==
    [k \in 1..Len(c) |-> IF c[k].k \in S THEN Item(c[k].k, 2 * c[k].v) ELSE c[k]]
DoublingsOf(c) == {DoubledOn(c, S) : S \in (SUBSET BlockingNames) \ {{}}}
NSubsets == 2 ^ Len(op.dle) - 1
Elements(seq, from, count) == {seq[from + q] : q \in 1..count}
AssignsAll(c) == Keys(c) = [i \in 1..Len(op.dle) |-> op.dle[i].argument]

\* C15 as stated: a call that needs aggressive autotuning builds its
\* candidate list, whatever the interpreter; the list has the base
\* candidates, then for every base candidate and every other base candidate
\* the first with the last component of the other, then for every base
\* candidate its doublings on every non-empty subset of the blocking
\* parameters; every candidate assigns every blocking parameter.
C15_EveryPairSwapped ==
    /\ (op.needs_aggressive_autotuning /\ pc = "raised") => status # "TypeError"
    /\ (Searching /\ op.needs_aggressive_autotuning) =>
          LET nbase == Len(Base)
              nswaps == nbase * (nbase - 1)
          IN /\ Len(blocksizes) = nbase + nswaps + nbase * NSubsets
             /\ SubSeq(blocksizes, 1, nbase) = Base
             /\ Elements(blocksizes, nbase, nswaps)
                  = {WithLastOf(Base[p[1]], Base[p[2]]) :
                        p \in {q \in (1..nbase) \X (1..nbase) : q[1] # q[2]}}
             /\ \A c \in 1..nbase :
                   Elements(blocksizes, nbase + nswaps + (c - 1) * NSubsets, NSubsets)
                     = DoublingsOf(Base[c])
             /\ \A i \in 1..Len(blocksizes) : AssignsAll(blocksizes[i])

====
